---- MODULE Spec2Model ----
(***************************************************************************)
(* State-machine model of vana.utils.transaction.TransactionManager:       *)
(* nonce allocation (_get_safe_nonce), the stuck-transaction sweep         *)
(* (_clear_pending_transactions) and the retry loop of send_transaction,   *)
(* run by concurrent caller threads against a node with a mempool.         *)
(***************************************************************************)
EXTENDS Integers, Sequences, FiniteSets, TLC

(* ---------------------------- bounds ----------------------------------- *)
MaxSeqCalls == 2       \* calls one thread makes one after another
MaxRetries == 2        \* largest max_retries argument passed by a caller
MaxExternal == 1       \* transactions of the account submitted outside the manager
MaxGasRetries == 3     \* largest max_retries argument where the gas price is studied
MaxBacklog == 2        \* transactions of the account waiting in the pool for a sweep

(* ----------------------- program constants ----------------------------- *)
nonce_refresh_interval == 60
max_wait_time == 180
poll_interval == 2
sweep_poll_interval == 5
sweep_gas_factor == 4

Threads == {"t1", "t2"}
\* self.account, given to the constructor, and another account a caller may
\* pass to send_transaction
ManagerAccount == "self.account"
Accounts == {"self.account", "other.account"}
NoThread == "none"
NoNonce == -1          \* cache_key not in self._nonce_cache
NoHash == 0

(* Arguments callers pass.  Multipliers are in tenths (15 is 1.5).         *)
MaxRetriesArgs == 0..MaxRetries
TimeoutArgs == {0, 3}
DefaultMultipliers == <<15, 50>>   \* base_gas_multiplier 1.5, max_gas_multiplier 5.0
MultiplierArgs == {<<15, 50>>, <<15, 15>>, <<10, 50>>}
ClearArgs == BOOLEAN
SweepRetriesArgs == {0, 1}
LiveRetriesArgs == {0, 1, 2}
GasPrices == {1, 10, 100}
DelayArgs == {nonce_refresh_interval + 1, max_wait_time}

Max(a, b) == IF a >= b THEN a ELSE b
Min(a, b) == IF a <= b THEN a ELSE b

RECURSIVE Pow(_, _)
Pow(b, e) == IF e = 0 THEN 1 ELSE b * Pow(b, e - 1)

(* Exceptions: the class and, for the wrappers the code builds with        *)
(* Exception(f"...{str(e)}"), the class of the error whose text it embeds. *)
Err(k, m, w) == [kind |-> k, msg |-> m, wraps |-> w]
LibErr(k) == Err(k, "", "none")
NoErr == Err("none", "", "none")

VARIABLES
    nonce_cache,         \* self._nonce_cache[self.account.address], NoNonce if absent
    refresh_age,         \* time.time() - self._last_nonce_refresh, saturated
    nonce_lock,          \* holder of self._nonce_lock
    elapsed,             \* per thread: time.time() - start_time, saturated
    sent,                \* transactions the node accepted, by hash (index)
    txstate,             \* per hash: "pool", "dropped", "ok", "fail"
    eth_gas_price,       \* web3.eth.gas_price
    pc,                  \* per thread: position in send_transaction
    args,                \* per thread: arguments of the running call
    retry_count,         \* per thread
    last_error,          \* per thread
    loc,                 \* per thread: gas_price, nonce, tx_hash of the attempt
    sweep,               \* per thread: locals of _clear_pending_transactions
    result,              \* per thread: outcome of the call
    callno,              \* per thread: number of the running call
    hist,                \* per thread: what the running call has done
    issued,              \* every nonce _get_safe_nonce returned, in order
    last_issue,          \* what the latest _get_safe_nonce call saw and did
    last_refresh         \* the counts the latest successful refresh read

vars == <<nonce_cache, refresh_age, nonce_lock, elapsed,
          sent, txstate, eth_gas_price, pc, args, retry_count, last_error,
          loc, sweep, result, callno, hist, issued, last_issue,
          last_refresh>>

mgrVars == <<nonce_cache, nonce_lock>>
issueVars == <<issued, last_issue, last_refresh>>
timeVars == <<refresh_age, elapsed>>
chainVars == <<sent, txstate, eth_gas_price>>
poolVars == <<sent, txstate>>

(* ------------------------------ the node ------------------------------- *)
Mined(h) == txstate[h] \in {"ok", "fail"}

\* the transaction count of an account at block 'latest'
ConfirmedCountOf(a) ==
    Cardinality({h \in DOMAIN sent : sent[h].from = a /\ Mined(h)})

\* the key under which the manager caches nonces and the address whose
\* counts it reads (lines 32, 42-43, 79-80, 176-177)
cache_key == ManagerAccount

\* web3.eth.get_transaction_count(self.account.address, 'latest')
ConfirmedCount == ConfirmedCountOf(cache_key)

InPool(n) ==
    \E h \in DOMAIN sent :
       sent[h].from = cache_key /\ sent[h].nonce = n /\ txstate[h] = "pool"

\* web3.eth.get_transaction_count(self.account.address, 'pending'): the
\* executable transactions are those with consecutive nonces from the
\* confirmed count.
PendingCount ==
    CHOOSE n \in ConfirmedCount..(ConfirmedCount + Len(sent)) :
        /\ ~InPool(n)
        /\ \A m \in ConfirmedCount..(n - 1) : InPool(m)

\* a transaction sent from account a
TxFrom(a, n, who, c, price) ==
    [from |-> a, nonce |-> n, by |-> who, call |-> c, price |-> price]

\* a transaction sent from the manager's account
Tx(n, who, c, price) == TxFrom(ManagerAccount, n, who, c, price)

\* The node takes a transaction into its pool; one already there from the
\* same account with the same nonce is replaced.
Accepted(tx) ==
    /\ sent' = Append(sent, tx)
    /\ txstate' = [h \in 1..(Len(sent) + 1) |->
                     IF h = Len(sent) + 1 THEN "pool"
                     ELSE IF /\ txstate[h] = "pool"
                             /\ sent[h].nonce = tx.nonce
                             /\ sent[h].from = tx.from
                          THEN "dropped" ELSE txstate[h]]

\* What a call has done so far: nonces acquired, <<gasPrice, network price>>
\* per attempt, attempts started, simulations and broadcasts made, sleeps of
\* the retry loop, sweeps invoked and the gap the congestion check read,
\* simulations that reverted, receipts with failure status, attempts that
\* failed by a receipt timeout or a non-revert RPC error, how the sweep ended,
\* how many of its replacements the node rejected, where in the try block of
\* the retry loop the latest exception was raised and of which class, how
\* many receipt lookups were made and what the latest one answered, the
\* replacement transactions the sweep handed to send_raw_transaction.
NoHist == [nonces |-> <<>>, prices |-> <<>>, attempts |-> 0, sims |-> 0,
           bcasts |-> 0, sleeps |-> <<>>, sweeps |-> 0, gap |-> 0,
           sim_reverts |-> 0, reverted |-> 0, transient |-> 0,
           sweep_out |-> "none", rejected |-> 0,
           raised |-> [at |-> "none", kind |-> "none"],
           lookups |-> 0, receipt |-> "none", replaced |-> <<>>]
NoLoc == [gas_price |-> 0, nonce |-> NoNonce, tx_hash |-> NoHash]
NoSweep == [next |-> 0, last |-> 0, highest_nonce |-> 0, initial_pending |-> 0]
NoArgs == [max_retries |-> 0, timeout |-> 0, base_gas_multiplier |-> 0,
           max_gas_multiplier |-> 0, clear_pending_transactions |-> FALSE,
           account |-> ManagerAccount]
NoIssue == [refreshed |-> FALSE, pending |-> 0, cached |-> NoNonce, age |-> 0]
NoRefresh == [made |-> FALSE, confirmed |-> 0, pending |-> 0]
NoResult == [status |-> "none", error |-> NoErr, tx_hash |-> NoHash]

Init ==
    /\ nonce_cache = NoNonce
    /\ refresh_age = nonce_refresh_interval + 1
    /\ nonce_lock = NoThread
    /\ elapsed = [t \in Threads |-> 0]
    /\ sent = <<>>
    /\ txstate = <<>>
    /\ eth_gas_price = 10
    /\ pc = [t \in Threads |-> "idle"]
    /\ args = [t \in Threads |-> NoArgs]
    /\ retry_count = [t \in Threads |-> 0]
    /\ last_error = [t \in Threads |-> NoErr]
    /\ loc = [t \in Threads |-> NoLoc]
    /\ sweep = [t \in Threads |-> NoSweep]
    /\ result = [t \in Threads |-> NoResult]
    /\ callno = [t \in Threads |-> 0]
    /\ hist = [t \in Threads |-> NoHist]
    /\ issued = <<>>
    /\ last_issue = NoIssue
    /\ last_refresh = NoRefresh

(* ------------------------- pure computations --------------------------- *)
\* a manager that reads the chain on every acquisition
AlwaysRefresh == TRUE

\* lines 34-37
ShouldRefresh ==
    \/ refresh_age > nonce_refresh_interval
    \/ nonce_cache = NoNonce

\* a refresh that looks at the confirmed count only
RefreshedFromConfirmedOnly(confirmed_nonce, pending_nonce, cached_nonce) ==
    confirmed_nonce

\* a refresh that forgets the cached value
RefreshedFromChainOnly(confirmed_nonce, pending_nonce, cached_nonce) ==
    Max(confirmed_nonce, pending_nonce)

\* lines 46-50: max(confirmed, pending), never below the cached value
RefreshedNonce(confirmed_nonce, pending_nonce, cached_nonce) ==
    Max(Max(confirmed_nonce, pending_nonce), cached_nonce)

\* a cache that is not incremented
NextCachedSame(nonce) == nonce

\* line 66
NextCached(nonce) == nonce + 1

\* a lock that excludes nobody
LockAlwaysAvailable == TRUE

\* a lock that is never handed out
LockNeverAvailable == FALSE

\* line 30: the lock is taken only when no thread holds it
LockAvailable == nonce_lock = NoThread

\* a multiplier without the cap
GasMultiplierUncapped(rc, bgm, maxgm) ==
    [num |-> bgm * Pow(12, rc - 1), den |-> Pow(10, rc)]

\* lines 197-204.  Multipliers are rationals: base_gas_multiplier and
\* max_gas_multiplier in tenths, 1.2 ** (retry_count - 1) as 12^k / 10^k.
GasMultiplier(rc, bgm, maxgm) ==
    LET num == bgm * Pow(12, rc - 1)
        den == Pow(10, rc)
    IN  IF num * 10 <= maxgm * den
        THEN [num |-> num, den |-> den]
        ELSE [num |-> maxgm, den |-> 10]

\* The multiplier is a Python float, an IEEE-754 double, and so is its
\* product with the gas price.  DoubleBelow[bgm][rc] is how far the double
\* bgm * (1.2 ** (rc - 1)) lies below the exact value, in units of 2^-53, as
\* <<numerator, denominator>>; it is negative where the double lies above.
\* For instance 1.5 * 1.2 is the double 1.7999999999999998, which is
\* 8/5 * 2^-53 below 1.8.  The values 1.5 and 5.0 of the cap are exact.
DoubleBelow ==
    [bgm \in {10, 15} |->
        IF bgm = 10
        THEN << <<0, 1>>, <<2, 5>>, <<12, 25>>, <<272, 125>>, <<632, 625>> >>
        ELSE << <<0, 1>>, <<8, 5>>, <<-32, 25>>, <<408, 125>>, <<948, 625>> >>]

\* the e with 2^e < n <= 2^(e+1): the doubles just below n are 2^(e-52) apart
RECURSIVE Binade(_)
Binade(n) == IF n <= 2 THEN 0 ELSE 1 + Binade((n + 1) \div 2)

\* line 204: int(base_gas_price * gas_multiplier) for the multiplier m short
\* of its exact value by u * 2^-53.  The exact product is truncated, except
\* that when it is a whole number N and the double product, short of N by
\* base_gas_price * u * 2^-53, is rounded to a double below N (it is rounded
\* to N only when the shortfall is at most half the spacing 2^(e-52)), the
\* result is N - 1.
FloatProductInt(base_gas_price, m, u) ==
    LET exact == (base_gas_price * m.num) \div m.den
        whole == (base_gas_price * m.num) % m.den = 0
    IN  IF /\ whole
           /\ u[1] > 0
           /\ base_gas_price * u[1] > u[2] * Pow(2, Binade(exact))
        THEN exact - 1
        ELSE exact

\* a fee plan that scales the first attempt too
GasPriceAlwaysScaled(base_gas_price, rc, bgm, maxgm) ==
    (base_gas_price * bgm) \div 10

\* lines 196-204
GasPrice(base_gas_price, rc, bgm, maxgm) ==
    IF rc = 0 THEN base_gas_price
    ELSE LET m == GasMultiplier(rc, bgm, maxgm)
             uncapped == m.num = bgm * Pow(12, rc - 1) /\ m.den = Pow(10, rc)
             u == IF uncapped THEN DoubleBelow[bgm][rc] ELSE <<0, 1>>
         IN  FloatProductInt(base_gas_price, m, u)

\* a check that sweeps on an empty gap too
ShouldSweepAlways(pending_count) == pending_count >= 0

\* line 178
ShouldSweep(pending_count) == pending_count > 0

\* a loop bound that is off by one
AttemptsRemainOffByOne(rc, max_retries) == rc <= max_retries

\* line 185 and line 294
AttemptsRemain(rc, max_retries) == rc < max_retries

\* a backoff computed from the count before its increment
BackoffTimeBeforeIncrement(rc) == Pow(2, rc - 1)

\* line 295
BackoffTime(rc) == Pow(2, rc)

\* line 268
TimedOut(t) == elapsed[t] > args[t].timeout

\* a wait loop that goes round once more at the limit
SweepWaitingPastLimit(t) == elapsed[t] <= max_wait_time

\* line 110
SweepWaiting(t) == elapsed[t] < max_wait_time

(* -------------------------------- time --------------------------------- *)
\* Only differences of clock readings are compared (lines 35, 110, 268), so
\* the model keeps the differences, each saturated just past the value it
\* is compared with: time since the last nonce refresh, and per thread the
\* time since start_time of the receipt loop or of the sweep's wait loop.
ElapsedCap(t) ==
    IF pc[t] = "poll" THEN args[t].timeout + 1
    ELSE IF pc[t] = "sweep_wait" THEN max_wait_time
    ELSE 0

AgedRefresh(d) == Min(refresh_age + d, nonce_refresh_interval + 1)
AgedElapsed(d) == [u \in Threads |-> Min(elapsed[u] + d, ElapsedCap(u))]

(* ----------------------- how a call ends or retries --------------------- *)
Raised(e) == [status |-> "raised", error |-> e, tx_hash |-> NoHash]
\* a return value that does not carry the hash
ReturnedNoHash(h) == [status |-> "returned", error |-> NoErr, tx_hash |-> NoHash]

\* line 259: return tx_hash, tx_receipt
Returned(h) == [status |-> "returned", error |-> NoErr, tx_hash |-> h]

\* the call leaves send_transaction without sleeping
Finish(t, res, h) ==
    /\ pc' = [pc EXCEPT ![t] = "done"]
    /\ result' = [result EXCEPT ![t] = res]
    /\ hist' = [hist EXCEPT ![t] = h]
    /\ elapsed' = [elapsed EXCEPT ![t] = 0]
    /\ UNCHANGED refresh_age

\* the thread goes on without sleeping
Continue(t, p, h) ==
    /\ pc' = [pc EXCEPT ![t] = p]
    /\ hist' = [hist EXCEPT ![t] = h]
    /\ elapsed' = [elapsed EXCEPT ![t] = 0]
    /\ UNCHANGED <<refresh_age, result>>

RevertKinds == {"ContractCustomError", "ContractLogicError"}

\* the history of a call in which exception e was just raised at stage at
RaisedAt(h, at, e) == [h EXCEPT !.raised = [at |-> at, kind |-> e.kind]]

\* handlers that take no exception for a contract error
FatalNever(e) == FALSE

\* lines 273 and 284: the two except clauses ahead of except Exception
Fatal(e) == e.kind \in RevertKinds

\* lines 275-282 and 285-287: the Exception raised in place of the error
FatalError(e) ==
    Err("Exception",
        IF e.kind = "ContractCustomError" THEN "Contract custom error"
        ELSE "Transaction would revert",
        e.kind)

\* lines 273-302: the except clauses around one attempt.  e is the exception
\* raised inside the try, h the call's history up to the raise.
Handle(t, e, h) ==
    IF Fatal(e) THEN
        /\ Finish(t, Raised(FatalError(e)), h)
        /\ UNCHANGED <<retry_count, last_error>>
    ELSE
        LET rc == retry_count[t] + 1
            h1 == IF e.kind \in {"RPCError", "TimeoutError"}
                  THEN [h EXCEPT !.transient = @ + 1] ELSE h
        IN
        /\ last_error' = [last_error EXCEPT ![t] = e]
        /\ retry_count' = [retry_count EXCEPT ![t] = rc]
        /\ IF AttemptsRemain(rc, args[t].max_retries)
           THEN /\ refresh_age' = AgedRefresh(BackoffTime(rc))
                /\ elapsed' = [AgedElapsed(BackoffTime(rc)) EXCEPT ![t] = 0]
                /\ pc' = [pc EXCEPT ![t] = "attempt"]
                /\ hist' = [hist EXCEPT ![t] =
                              [h1 EXCEPT !.sleeps = Append(@, BackoffTime(rc))]]
                /\ UNCHANGED result
           ELSE Finish(t, Raised(e), h1)

(* ------------------------------ actions -------------------------------- *)
\* lines 141-151, 175, 182-183: a caller thread enters send_transaction
\* with account a as its account argument
StartCallAs(t, mr, to, m, cl, a) ==
    /\ pc[t] \in {"idle", "done"}
    /\ args' = [args EXCEPT ![t] =
                  [max_retries |-> mr, timeout |-> to,
                   base_gas_multiplier |-> m[1], max_gas_multiplier |-> m[2],
                   clear_pending_transactions |-> cl, account |-> a]]
    /\ pc' = [pc EXCEPT ![t] = IF cl THEN "check" ELSE "attempt"]
    /\ callno' = [callno EXCEPT ![t] = @ + 1]
    /\ retry_count' = [retry_count EXCEPT ![t] = 0]
    /\ last_error' = [last_error EXCEPT ![t] = NoErr]
    /\ loc' = [loc EXCEPT ![t] = NoLoc]
    /\ sweep' = [sweep EXCEPT ![t] = NoSweep]
    /\ result' = [result EXCEPT ![t] = NoResult]
    /\ hist' = [hist EXCEPT ![t] = NoHist]
    /\ UNCHANGED <<mgrVars, timeVars, chainVars, issueVars>>

\* the call as the callers of this repository make it: with the account the
\* manager was constructed with
StartCall(t, mr, to, m, cl) == StartCallAs(t, mr, to, m, cl, ManagerAccount)

\* lines 175-180: the congestion check; its two reads are outside any try
CongestionCheck(t) ==
    /\ pc[t] = "check"
    /\ \E rpc \in {"ok", "RPCError"} :
          IF rpc = "ok"
          THEN LET pending_count == PendingCount - ConfirmedCount
                   h == [hist[t] EXCEPT !.gap = pending_count] IN
               IF ShouldSweep(pending_count)
               THEN Continue(t, "sweep", [h EXCEPT !.sweeps = @ + 1])
               ELSE Continue(t, "attempt", h)
          ELSE Finish(t, Raised(LibErr(rpc)), hist[t])
    /\ UNCHANGED <<mgrVars, chainVars, args, retry_count,
                   last_error, loc, sweep, callno, issueVars>>

\* a sweep that lets its exceptions out to send_transaction
SweepFailedRaises(t, e) ==
    Finish(t, Raised(e), [hist[t] EXCEPT !.sweep_out = "error"])

\* lines 138-139: an exception raised anywhere in the sweep is logged and
\* _clear_pending_transactions returns
SweepFailed(t, e) ==
    Continue(t, "attempt", [hist[t] EXCEPT !.sweep_out = "error"])

\* lines 83, 119, 123, 133: _clear_pending_transactions returns
SweepReturns(t, how) ==
    Continue(t, "attempt", [hist[t] EXCEPT !.sweep_out = how])

\* lines 77-87: the sweep reads the counts; any exception ends it (line 138)
SweepStart(t) ==
    /\ pc[t] = "sweep"
    /\ \E rpc \in {"ok", "RPCError"} :
          IF rpc = "ok" /\ PendingCount > ConfirmedCount
          THEN /\ sweep' = [sweep EXCEPT ![t] =
                              [next |-> ConfirmedCount, last |-> PendingCount,
                               highest_nonce |-> PendingCount - 1,
                               initial_pending |-> PendingCount - ConfirmedCount]]
               /\ Continue(t, "sweep_replace", hist[t])
          ELSE /\ IF rpc = "ok" THEN SweepReturns(t, "no_gap")
                                ELSE SweepFailed(t, LibErr(rpc))
               /\ UNCHANGED sweep
    /\ UNCHANGED <<mgrVars, chainVars, args, retry_count,
                   last_error, loc, callno, issueVars>>

\* a replacement offered at the network gas price
ReplacementAtMarket(nonce, gas_price) ==
    [from |-> "self.account", to |-> "self.account", value |-> 0,
     nonce |-> nonce, gas |-> 21000, gasPrice |-> gas_price]

\* lines 90-98: replacement_tx, gas_price being web3.eth.gas_price as read
\* for this nonce
Replacement(nonce, gas_price) ==
    [from |-> "self.account", to |-> "self.account", value |-> 0,
     nonce |-> nonce, gas |-> 21000, gasPrice |-> gas_price * sweep_gas_factor]

\* lines 89-105 and 108-109: one replacement; a rejected broadcast is only
\* logged, any other exception (reading the gas price, signing) ends the sweep
SweepReplace(t) ==
    /\ pc[t] = "sweep_replace"
    /\ LET nonce == sweep[t].next
           more == nonce + 1 < sweep[t].last
           replacement_tx == Replacement(nonce, eth_gas_price)
           h == [hist[t] EXCEPT !.replaced = Append(@, replacement_tx)]
           step(h1) ==
                   /\ sweep' = [sweep EXCEPT ![t].next = nonce + 1]
                   /\ Continue(t, IF more THEN "sweep_replace" ELSE "sweep_wait", h1)
       IN  \E out \in {"accepted", "rejected", "raised"} :
              \/ /\ out = "accepted"
                 /\ nonce >= ConfirmedCount
                 /\ Accepted(Tx(nonce, "sweep", callno[t], replacement_tx.gasPrice))
                 /\ step(h)
              \/ /\ out = "rejected"
                 /\ step([h EXCEPT !.rejected = @ + 1])
                 /\ UNCHANGED poolVars
              \/ /\ out = "raised"
                 /\ SweepFailed(t, LibErr("RPCError"))
                 /\ UNCHANGED <<poolVars, sweep>>
    /\ UNCHANGED <<mgrVars, eth_gas_price, args, retry_count,
                   last_error, loc, callno, issueVars>>

\* lines 110-136: one round of the wait loop of the sweep
SweepWait(t) ==
    /\ pc[t] = "sweep_wait"
    /\ IF SweepWaiting(t)
       THEN \E rpc \in {"ok", "RPCError"} :
               IF rpc # "ok" THEN SweepFailed(t, LibErr(rpc))
               ELSE IF ConfirmedCount > sweep[t].highest_nonce
                    THEN SweepReturns(t, "processed")
               ELSE IF PendingCount - ConfirmedCount = 0
                    THEN SweepReturns(t, "no_pending")
               ELSE /\ refresh_age' = AgedRefresh(sweep_poll_interval)
                    /\ elapsed' = AgedElapsed(sweep_poll_interval)
                    /\ UNCHANGED <<pc, hist, result>>
       ELSE SweepReturns(t, "timeout")
    /\ UNCHANGED <<mgrVars, chainVars, args, retry_count,
                   last_error, loc, sweep, callno, issueVars>>

\* lines 185-211 and 304: loop head, gas estimate and gas price of an attempt
Attempt(t) ==
    /\ pc[t] = "attempt"
    /\ IF ~AttemptsRemain(retry_count[t], args[t].max_retries)
       THEN /\ Finish(t, Raised(Err("Exception", "Failed to send transaction",
                                    last_error[t].kind)), hist[t])
            /\ UNCHANGED <<retry_count, last_error, loc>>
       ELSE LET h == [hist[t] EXCEPT !.attempts = @ + 1] IN
            \E est \in {"ok", "ContractLogicError", "ContractCustomError", "RPCError"} :
               IF est = "ok"
               THEN LET base_gas_price == eth_gas_price
                        gas_price == GasPrice(base_gas_price, retry_count[t],
                                              args[t].base_gas_multiplier,
                                              args[t].max_gas_multiplier)
                    IN  /\ loc' = [loc EXCEPT ![t] = [NoLoc EXCEPT !.gas_price = gas_price]]
                        /\ Continue(t, "nonce",
                                    [h EXCEPT !.prices =
                                         Append(@, <<gas_price, base_gas_price>>)])
                        /\ UNCHANGED <<retry_count, last_error>>
               ELSE /\ Handle(t, LibErr(est), RaisedAt(h, "estimate", LibErr(est)))
                    /\ UNCHANGED loc
    /\ UNCHANGED <<mgrVars, chainVars, args, sweep, callno, issueVars>>

\* line 30: with self._nonce_lock
LockAcquire(t) ==
    /\ pc[t] = "nonce"
    /\ LockAvailable
    /\ nonce_lock' = t
    /\ pc' = [pc EXCEPT ![t] = "locked"]
    /\ UNCHANGED <<nonce_cache, timeVars, chainVars,
                   args, retry_count, last_error, loc, sweep, result, callno,
                   hist, issueVars>>

\* a lock that its holder keeps after _get_safe_nonce
ReleasedLate(t) == t

\* lines 30, 62 and 68: leaving the with block, by return or by raise,
\* releases the lock; the value is the holder afterwards
Released(t) == NoThread

\* a refresh time that is set whether or not the counts were read
RefreshAgeAlwaysReset(refreshed) == 0

\* line 52: self._last_nonce_refresh = current_time is reached only when both
\* counts were read; the value is the age of the last refresh afterwards
RefreshAge(refreshed) == IF refreshed THEN 0 ELSE refresh_age

\* lines 31-68: the body of _get_safe_nonce and the release of the lock
GetSafeNonce(t) ==
    /\ pc[t] = "locked"
    /\ nonce_lock' = Released(t)
    /\ \E rpc \in {"ok", "RPCError"} :
          IF ShouldRefresh /\ rpc # "ok" /\ nonce_cache = NoNonce
          THEN \* line 62: raise
               /\ Handle(t, LibErr(rpc), RaisedAt(hist[t], "nonce", LibErr(rpc)))
               /\ UNCHANGED <<nonce_cache, loc, issueVars>>
          ELSE LET refreshed == ShouldRefresh /\ rpc = "ok"
                   cached_nonce == IF nonce_cache = NoNonce THEN 0 ELSE nonce_cache
                   nonce == IF refreshed
                            THEN RefreshedNonce(ConfirmedCount, PendingCount,
                                                cached_nonce)
                            ELSE nonce_cache
               IN  /\ nonce_cache' = NextCached(nonce)
                   /\ refresh_age' = RefreshAge(refreshed)
                   /\ loc' = [loc EXCEPT ![t].nonce = nonce]
                   /\ issued' = Append(issued,
                          [by |-> t, call |-> callno[t], nonce |-> nonce])
                   /\ last_issue' = [refreshed |-> refreshed,
                                     pending |-> PendingCount,
                                     cached |-> nonce_cache,
                                     age |-> refresh_age]
                   /\ last_refresh' = IF refreshed
                                      THEN [made |-> TRUE,
                                            confirmed |-> ConfirmedCount,
                                            pending |-> PendingCount]
                                      ELSE last_refresh
                   /\ hist' = [hist EXCEPT ![t].nonces = Append(@, nonce)]
                   /\ pc' = [pc EXCEPT ![t] = "simulate"]
                   /\ UNCHANGED <<retry_count, last_error, elapsed, result>>
    /\ UNCHANGED <<chainVars, args, sweep, callno>>

\* lines 215-236: build_transaction and the simulation web3.eth.call; the
\* inner except turns a ContractLogicError (ContractCustomError is a subclass)
\* into a plain Exception raised inside the outer try.  build_transaction is
\* outside the inner try.
Simulate(t) ==
    /\ pc[t] = "simulate"
    /\ LET h == [hist[t] EXCEPT !.sims = @ + 1] IN
       \E build \in {"ok", "RPCError", "ContractLogicError", "ContractCustomError"} :
          IF build # "ok"
          THEN Handle(t, LibErr(build), RaisedAt(hist[t], "build", LibErr(build)))
          ELSE \E out \in {"ok", "ContractLogicError", "ContractCustomError",
                           "RPCError"} :
                  CASE out = "ok" ->
                          /\ Continue(t, "broadcast", h)
                          /\ UNCHANGED <<retry_count, last_error>>
                    [] out \in RevertKinds ->
                          LET e == Err("Exception", "Transaction would revert", out)
                          IN  Handle(t, e, RaisedAt([h EXCEPT !.sim_reverts = @ + 1],
                                                    "simulate", e))
                    [] OTHER ->
                          Handle(t, LibErr(out), RaisedAt(h, "simulate", LibErr(out)))
    /\ UNCHANGED <<mgrVars, chainVars, args, loc, sweep, callno, issueVars>>

\* lines 238-249: sign with account.key, send_raw_transaction, start_time =
\* time.time().  The transaction is from account.address (line 216); the node
\* refuses a nonce below that account's confirmed count.
Broadcast(t) ==
    /\ pc[t] = "broadcast"
    /\ \E out \in {"accepted", "RPCError", "ContractLogicError",
                   "ContractCustomError"} :
          IF out = "accepted"
          THEN /\ loc[t].nonce >= ConfirmedCountOf(args[t].account)
               /\ Accepted(TxFrom(args[t].account, loc[t].nonce, t, callno[t],
                                   loc[t].gas_price))
               /\ loc' = [loc EXCEPT ![t].tx_hash = Len(sent) + 1]
               /\ Continue(t, "poll", [hist[t] EXCEPT !.bcasts = @ + 1])
               /\ UNCHANGED <<retry_count, last_error>>
          ELSE /\ Handle(t, LibErr(out), RaisedAt(hist[t], "broadcast", LibErr(out)))
               /\ UNCHANGED <<poolVars, loc>>
    /\ UNCHANGED <<mgrVars, eth_gas_price, args, sweep, callno, issueVars>>

\* lines 250-271: one round of the receipt loop.  A lookup that raises
\* counts as one that found no receipt (lines 262-264).
Poll(t) ==
    /\ pc[t] = "poll"
    /\ \E out \in {"receipt", "none"} :
          LET answer == IF out = "receipt" THEN txstate[loc[t].tx_hash] ELSE "none"
              h == [hist[t] EXCEPT !.lookups = @ + 1, !.receipt = answer]
          IN
          IF out = "receipt"
          THEN /\ Mined(loc[t].tx_hash)
               /\ IF txstate[loc[t].tx_hash] = "ok"
                  THEN /\ Finish(t, Returned(loc[t].tx_hash), h)
                       /\ UNCHANGED <<retry_count, last_error>>
                  ELSE LET e == Err("Exception", "Transaction reverted", "none")
                       IN  Handle(t, e, RaisedAt([h EXCEPT !.reverted = @ + 1],
                                                 "receipt", e))
          ELSE IF TimedOut(t)
               THEN Handle(t, LibErr("TimeoutError"),
                           RaisedAt(h, "timeout", LibErr("TimeoutError")))
               ELSE /\ refresh_age' = AgedRefresh(poll_interval)
                    /\ elapsed' = AgedElapsed(poll_interval)
                    /\ hist' = [hist EXCEPT ![t] =
                                  [h EXCEPT !.sleeps = Append(@, poll_interval)]]
                    /\ UNCHANGED <<retry_count, last_error, pc, result>>
    /\ UNCHANGED <<mgrVars, chainVars, args, loc, sweep, callno, issueVars>>

\* what get_transaction_receipt raises: web3's TransactionNotFound, whose
\* text is "Transaction with hash: ... not found.", and errors of the
\* connection to the node
LookupErrors ==
    {Err("TransactionNotFound", "Transaction with hash", "none"),
     LibErr("RPCError")}

\* a receipt loop that lets every exception out
SwallowedNever(e) == FALSE

\* lines 262-266: an exception raised in the try of the receipt loop is
\* ignored unless its text starts with "Transaction reverted"
Swallowed(e) == e.msg # "Transaction reverted"

\* lines 250-271: one round of the receipt loop in which
\* get_transaction_receipt raises
PollRaises(t) ==
    /\ pc[t] = "poll"
    /\ \E e \in LookupErrors :
          LET h == [hist[t] EXCEPT !.lookups = @ + 1, !.receipt = "error"] IN
          IF ~Swallowed(e)
          THEN Handle(t, e, RaisedAt(h, "lookup", e))
          ELSE IF TimedOut(t)
               THEN Handle(t, LibErr("TimeoutError"),
                           RaisedAt(h, "timeout", LibErr("TimeoutError")))
               ELSE /\ refresh_age' = AgedRefresh(poll_interval)
                    /\ elapsed' = AgedElapsed(poll_interval)
                    /\ hist' = [hist EXCEPT ![t] =
                                  [h EXCEPT !.sleeps = Append(@, poll_interval)]]
                    /\ UNCHANGED <<retry_count, last_error, pc, result>>
    /\ UNCHANGED <<mgrVars, chainVars, args, loc, sweep, callno, issueVars>>

(* --------------------------- the environment --------------------------- *)
\* the chain includes the pooled transaction with the next nonce in a block
Mine ==
    /\ \E h \in DOMAIN sent :
          /\ txstate[h] = "pool"
          /\ sent[h].nonce = ConfirmedCountOf(sent[h].from)
          /\ \E st \in {"ok", "fail"} :
                /\ (sent[h].by \notin Threads) => st = "ok"
                /\ txstate' = [txstate EXCEPT ![h] = st]
    /\ UNCHANGED <<mgrVars, timeVars, sent, eth_gas_price, pc, args, retry_count,
                   last_error, loc, sweep, result, callno, hist, issueVars>>

\* the account's key is also used outside this manager
External ==
    /\ Cardinality({h \in DOMAIN sent : sent[h].by = "ext"}) < MaxExternal
    /\ Accepted(Tx(PendingCount, "ext", 0, 0))
    /\ UNCHANGED <<mgrVars, timeVars, eth_gas_price, pc, args, retry_count,
                   last_error, loc, sweep, result, callno, hist, issueVars>>

\* transactions of the account, sent outside the manager, wait in the pool
Backlog ==
    /\ Cardinality({h \in DOMAIN sent : sent[h].by = "ext"}) < MaxBacklog
    /\ Accepted(Tx(PendingCount, "ext", 0, 0))
    /\ UNCHANGED <<mgrVars, timeVars, eth_gas_price, pc, args, retry_count,
                   last_error, loc, sweep, result, callno, hist, issueVars>>

\* the node drops a transaction of the backlog from its pool
Evict ==
    /\ \E h \in DOMAIN sent :
          /\ txstate[h] = "pool"
          /\ sent[h].by = "ext"
          /\ txstate' = [txstate EXCEPT ![h] = "dropped"]
    /\ UNCHANGED <<mgrVars, timeVars, sent, eth_gas_price, pc, args, retry_count,
                   last_error, loc, sweep, result, callno, hist, issueVars>>

\* wall-clock time passes while no thread runs
Delay ==
    /\ \E d \in DelayArgs :
          /\ refresh_age' = AgedRefresh(d)
          /\ elapsed' = AgedElapsed(d)
    /\ UNCHANGED <<mgrVars, chainVars, pc, args, retry_count,
                   last_error, loc, sweep, result, callno, hist, issueVars>>

(* --------------------------- specifications ---------------------------- *)
Step(t) ==
    \/ CongestionCheck(t)
    \/ SweepStart(t)
    \/ SweepReplace(t)
    \/ SweepWait(t)
    \/ Attempt(t)
    \/ LockAcquire(t)
    \/ GetSafeNonce(t)
    \/ Simulate(t)
    \/ Broadcast(t)
    \/ Poll(t)

\* the network gas price moves.  It is read at the head of an attempt (line
\* 196) and for each replacement of the sweep (line 96) only, so a move is
\* taken when a caller is about to read.
GasPriceChange ==
    /\ \E t \in Threads : pc[t] \in {"attempt", "sweep_replace"}
    /\ \E g \in GasPrices \ {eth_gas_price} : eth_gas_price' = g
    /\ UNCHANGED <<mgrVars, timeVars, poolVars, pc, args, retry_count,
                   last_error, loc, sweep, result, callno, hist, issueVars>>

\* One caller thread makes one call without clear_pending_transactions, with
\* any max_retries and timeout, on an account that only the manager uses.
Next ==
    \/ \E mr \in MaxRetriesArgs, to \in TimeoutArgs :
          /\ callno["t1"] < 1
          /\ StartCall("t1", mr, to, DefaultMultipliers, FALSE)
    \/ \E t \in Threads :
          Attempt(t) \/ LockAcquire(t) \/ GetSafeNonce(t) \/ Simulate(t)
             \/ Broadcast(t) \/ Poll(t)
    \/ Mine
    \/ Delay

Spec == Init /\ [][Next]_vars

\* One caller thread makes one call of up to two attempts on an account that
\* is also used outside the manager, with pauses long enough for the nonce
\* cache to fall due for a refresh.
NextNonce ==
    \/ /\ callno["t1"] < 1
       /\ StartCall("t1", 2, 0, DefaultMultipliers, FALSE)
    \/ \E t \in Threads :
          Attempt(t) \/ LockAcquire(t) \/ GetSafeNonce(t) \/ Simulate(t)
             \/ Broadcast(t) \/ Poll(t)
    \/ Mine
    \/ External
    \/ Delay

SpecNonce == Init /\ [][NextNonce]_vars

\* one caller, one call with or without clear_pending_transactions, on an
\* account that may have transactions of its own in the pool
NextSweep ==
    \/ \E mr \in SweepRetriesArgs, to \in TimeoutArgs, cl \in ClearArgs :
          /\ callno["t1"] < 1
          /\ StartCall("t1", mr, to, DefaultMultipliers, cl)
    \/ \E t \in Threads : Step(t)
    \/ Mine
    \/ External
    \/ Delay

SpecSweep == Init /\ [][NextSweep]_vars

\* One caller thread makes one call without the sweep; the multipliers and
\* the network gas price vary.
InitGas ==
    \E g \in GasPrices :
       Init!1 /\ Init!2 /\ Init!3 /\ Init!4 /\ Init!5 /\ Init!6
       /\ eth_gas_price = g
       /\ Init!8 /\ Init!9 /\ Init!10 /\ Init!11 /\ Init!12 /\ Init!13
       /\ Init!14 /\ Init!15 /\ Init!16 /\ Init!17 /\ Init!18 /\ Init!19

NextGas ==
    \/ \E mr \in 1..MaxGasRetries, m \in MultiplierArgs :
          /\ callno["t1"] < 1
          /\ StartCall("t1", mr, 0, m, FALSE)
    \/ \E t \in Threads :
          Attempt(t) \/ LockAcquire(t) \/ GetSafeNonce(t) \/ Simulate(t)
             \/ Broadcast(t) \/ Poll(t)
    \/ Mine
    \/ GasPriceChange

SpecGas == InitGas /\ [][NextGas]_vars

\* Two caller threads share the manager; the first makes its calls one after
\* another, the second makes one call.  Every call makes a single attempt
\* (max_retries = 1) and requests no sweep.
NextConcurrent ==
    \/ /\ callno["t1"] < MaxSeqCalls
       /\ StartCall("t1", 1, 0, DefaultMultipliers, FALSE)
    \/ /\ callno["t2"] < 1
       /\ StartCall("t2", 1, 0, DefaultMultipliers, FALSE)
    \/ \E t \in Threads :
          Attempt(t) \/ LockAcquire(t) \/ GetSafeNonce(t) \/ Simulate(t)
             \/ Broadcast(t) \/ Poll(t)
    \/ Mine
    \/ Delay

SpecConcurrent == Init /\ [][NextConcurrent]_vars

\* Two caller threads each make one call with clear_pending_transactions set,
\* on an account that has transactions in the pool.  The calls are made with
\* max_retries = 0, so that each ends at the loop head once its congestion
\* check and sweep are over.
NextSweepRace ==
    \/ \E t \in Threads :
          /\ callno[t] < 1
          /\ StartCall(t, 0, 0, DefaultMultipliers, TRUE)
    \/ \E t \in Threads :
          CongestionCheck(t) \/ SweepStart(t) \/ SweepReplace(t) \/ SweepWait(t)
             \/ Attempt(t)
    \/ Mine
    \/ External

SpecSweepRace == Init /\ [][NextSweepRace]_vars

\* Two caller threads share the manager and make one call each: the first
\* with max_retries = 2, so that it sleeps in backoff between its attempts,
\* the second with a single attempt.
NextWaiting ==
    \/ /\ callno["t1"] < 1
       /\ StartCall("t1", 2, 0, DefaultMultipliers, FALSE)
    \/ /\ callno["t2"] < 1
       /\ StartCall("t2", 1, 0, DefaultMultipliers, FALSE)
    \/ \E t \in Threads :
          Attempt(t) \/ LockAcquire(t) \/ GetSafeNonce(t) \/ Simulate(t)
             \/ Broadcast(t) \/ Poll(t)
    \/ Mine

SpecWaiting == Init /\ [][NextWaiting]_vars

\* One caller thread makes one call with max_retries up to 2, any timeout and
\* clear_pending_transactions set or not.  The thread keeps running: whenever it can
\* take a step it eventually takes one.  Time advances by the sleeps of the
\* code only; the chain and the other users of the account are free to act
\* or not.
NextLive ==
    \/ \E mr \in LiveRetriesArgs, to \in TimeoutArgs, cl \in ClearArgs :
          /\ callno["t1"] < 1
          /\ StartCall("t1", mr, to, DefaultMultipliers, cl)
    \/ \E t \in Threads : Step(t)
    \/ Mine
    \/ External

SpecLive ==
    /\ Init
    /\ [][NextLive]_vars
    /\ \A t \in Threads : WF_vars(Step(t))

\* One caller thread makes one call with clear_pending_transactions set on an
\* account with a backlog of transactions in the pool, while the network gas
\* price moves.  The call is made with max_retries = 0, so that it ends at
\* the loop head once its congestion check and sweep are over.
NextReplace ==
    \/ /\ callno["t1"] < 1
       /\ StartCall("t1", 0, 0, DefaultMultipliers, TRUE)
    \/ \E t \in Threads :
          CongestionCheck(t) \/ SweepStart(t) \/ SweepReplace(t) \/ SweepWait(t)
             \/ Attempt(t)
    \/ Mine
    \/ Backlog
    \/ GasPriceChange

SpecReplace == Init /\ [][NextReplace]_vars

\* the steps of a call up to the head of its retry loop
SweepStep(t) ==
    \/ CongestionCheck(t)
    \/ SweepStart(t)
    \/ SweepReplace(t)
    \/ SweepWait(t)
    \/ Attempt(t)

\* The same call at a steady network gas price, on a node that may drop
\* transactions of the backlog from its pool, with the caller thread kept
\* running: whenever it can take a step it eventually takes one.  Time
\* advances by the sleeps of the wait loop; the chain and the pool are free to
\* act or not.
NextSweepWait ==
    \/ /\ callno["t1"] < 1
       /\ StartCall("t1", 0, 0, DefaultMultipliers, TRUE)
    \/ \E t \in Threads : SweepStep(t)
    \/ Mine
    \/ Backlog
    \/ Evict

SpecSweepWait ==
    /\ Init
    /\ [][NextSweepWait]_vars
    /\ \A t \in Threads : WF_vars(SweepStep(t))

\* Two caller threads share the manager and make one call each: the first
\* with clear_pending_transactions set (and max_retries = 0, so that it ends
\* once its sweep is over), the second an ordinary call of one attempt that
\* waits up to 3 seconds for its receipt.
NextInFlight ==
    \/ /\ callno["t1"] < 1
       /\ StartCall("t1", 0, 0, DefaultMultipliers, TRUE)
    \/ /\ callno["t2"] < 1
       /\ StartCall("t2", 1, 3, DefaultMultipliers, FALSE)
    \/ \E t \in Threads : Step(t)
    \/ Mine

SpecInFlight == Init /\ [][NextInFlight]_vars

\* One caller thread makes its calls one after another, each of one attempt,
\* passing the manager's own account or another one.
NextAccounts ==
    \/ \E a \in Accounts :
          /\ callno["t1"] < MaxSeqCalls
          /\ StartCallAs("t1", 1, 0, DefaultMultipliers, FALSE, a)
    \/ \E t \in Threads :
          Attempt(t) \/ LockAcquire(t) \/ GetSafeNonce(t) \/ Simulate(t)
             \/ Broadcast(t) \/ Poll(t)
    \/ Mine

SpecAccounts == Init /\ [][NextAccounts]_vars

\* One caller thread makes one call of one or two attempts, with any timeout,
\* against a node whose receipt lookups may fail.
NextLookup ==
    \/ \E mr \in {1, 2}, to \in TimeoutArgs :
          /\ callno["t1"] < 1
          /\ StartCall("t1", mr, to, DefaultMultipliers, FALSE)
    \/ \E t \in Threads :
          Attempt(t) \/ LockAcquire(t) \/ GetSafeNonce(t) \/ Simulate(t)
             \/ Broadcast(t) \/ Poll(t) \/ PollRaises(t)
    \/ Mine

SpecLookup == Init /\ [][NextLookup]_vars

(* ------------------------------- claims -------------------------------- *)
ManagerTx == {h \in DOMAIN sent : sent[h].by \in Threads}

\* C1 (as claimed): once the simulation has raised a revert in a call, the
\* call has ended with a raise in that same attempt: no backoff sleep and no
\* further attempt follow, whatever max_retries is.
C1_NoRetryOnSimulationRevert ==
    \A t \in Threads :
       hist[t].sim_reverts > 0 =>
          /\ pc[t] = "done"
          /\ result[t].status = "raised"
          /\ hist[t].sim_reverts = 1

\* C2 (as claimed): once a receipt with failure status has been read, the
\* call has ended with a raise; no further attempt is started even when
\* retries remain.
C2_NoRetryOnRevertedReceipt ==
    \A t \in Threads :
       hist[t].reverted > 0 =>
          /\ pc[t] = "done"
          /\ result[t].status = "raised"

\* C3 (as claimed): from one call of a thread to its next call the nonce
\* grows by exactly 1, whatever other threads do in between.
C3_SequentialNoncesStepByOne ==
    \A i, j \in DOMAIN issued :
       (issued[i].by = issued[j].by /\ issued[j].call = issued[i].call + 1)
          => issued[j].nonce = issued[i].nonce + 1

\* C3 (amended): over the sequential calls of one thread the nonces used are
\* strictly increasing, whatever other threads do in between.
C3_SequentialNoncesIncrease ==
    \A i, j \in DOMAIN issued :
       (issued[i].by = issued[j].by /\ issued[i].call < issued[j].call)
          => issued[i].nonce < issued[j].nonce

\* C3 witness: a call of the other thread took a nonce between two
\* sequential calls of one thread.
C3_Witness ==
    \E i, k, j \in DOMAIN issued :
       /\ i < k /\ k < j
       /\ issued[i].by = issued[j].by
       /\ issued[k].by # issued[i].by
       /\ issued[j].call = issued[i].call + 1

IssueIndex(h) ==
    LET S == {i \in DOMAIN issued :
                 /\ issued[i].by = sent[h].by
                 /\ issued[i].call = sent[h].call
                 /\ issued[i].nonce = sent[h].nonce}
    IN  IF S = {} THEN 0 ELSE CHOOSE i \in S : TRUE

HoldsUnsentNonce(t) == pc[t] \in {"simulate", "broadcast"}

C6_NonceIsChainPendingCount ==
    issued # <<>> => issued[Len(issued)].nonce = last_issue.pending

\* C6 (amended): the nonce of an attempt is the cached next-nonce, which is
\* the previously handed out nonce plus 1; it is raised to the chain's count
\* only by a refresh, and a refresh is made only when the cache is empty or
\* more than nonce_refresh_interval seconds have passed since the last one.
C6_NonceIsCachedValue ==
    issued # <<>> =>
       LET i == Len(issued) IN
       /\ i > 1 => last_issue.cached = issued[i - 1].nonce + 1
       /\ last_issue.refreshed =>
             /\ last_issue.cached = NoNonce \/ last_issue.age > nonce_refresh_interval
             /\ issued[i].nonce >= last_issue.pending
             /\ issued[i].nonce >= last_issue.cached
       /\ ~last_issue.refreshed => issued[i].nonce = last_issue.cached

\* C6 witness: the attempt after a receipt timeout took the cached nonce,
\* which is not the chain's pending count.
C6_Witness ==
    \E t \in Threads :
       /\ last_error[t].kind = "TimeoutError"
       /\ pc[t] = "simulate"
       /\ Len(issued) > 1
       /\ ~last_issue.refreshed
       /\ issued[Len(issued)].by = t
       /\ issued[Len(issued)].nonce # last_issue.pending

AllTransient(t) ==
    /\ hist[t].attempts > 0
    /\ hist[t].transient = hist[t].attempts

\* C7: with max_retries = M >= 1, a call all of whose attempts failed by a
\* receipt timeout or a non-revert RPC error has made exactly M attempts and
\* has raised; until then each such failure leads to a new attempt, and no
\* call makes more than M attempts.
C7_ExactlyMaxRetriesAttempts ==
    \A t \in Threads :
       /\ hist[t].attempts <= Max(args[t].max_retries, 0)
       /\ (pc[t] = "done" /\ args[t].max_retries >= 1 /\ AllTransient(t)) =>
             /\ hist[t].attempts = args[t].max_retries
             /\ result[t].status = "raised"
       /\ (pc[t] = "attempt" /\ args[t].max_retries >= 1) =>
             hist[t].attempts < args[t].max_retries

\* C7 witness: a call with max_retries = 2 has ended after two attempts that
\* both failed transiently.
C7_Witness ==
    \E t \in Threads :
       /\ pc[t] = "done"
       /\ args[t].max_retries = 2
       /\ AllTransient(t)
       /\ hist[t].attempts = 2
       /\ result[t].status = "raised"

\* C8 (as claimed): a call that gives up after max_retries >= 1 retryable
\* failures raises an aggregate error that embeds the last attempt's error.
C8_RaisesAggregateError ==
    \A t \in Threads :
       (/\ pc[t] = "done"
        /\ args[t].max_retries >= 1
        /\ AllTransient(t)
        /\ hist[t].attempts = args[t].max_retries) =>
          /\ result[t].error.kind = "Exception"
          /\ result[t].error.msg = "Failed to send transaction"
          /\ result[t].error.wraps = last_error[t].kind

SameNetworkPrice(t, k) == hist[t].prices[k][2] = hist[t].prices[k + 1][2]

\* C9 (as claimed): with the network gas price unchanged, each attempt's
\* gasPrice is strictly greater than that of the attempt before, and none
\* exceeds max_gas_multiplier times the network gas price.
C9_GasStrictlyEscalates ==
    \A t \in Threads :
       /\ \A k \in 1..(Len(hist[t].prices) - 1) :
             SameNetworkPrice(t, k) => hist[t].prices[k + 1][1] > hist[t].prices[k][1]
       /\ \A k \in 1..Len(hist[t].prices) :
             hist[t].prices[k][1] * 10 <= args[t].max_gas_multiplier * hist[t].prices[k][2]

\* C9 (amended): for multipliers of at least 1.0 and an unchanged network gas
\* price, each attempt's gasPrice is greater than or equal to that of the
\* attempt before, and none exceeds max_gas_multiplier times the network gas
\* price.
C9_GasNeverDecreases ==
    \A t \in Threads :
       (args[t].base_gas_multiplier >= 10 /\ args[t].max_gas_multiplier >= 10) =>
          /\ \A k \in 1..(Len(hist[t].prices) - 1) :
                SameNetworkPrice(t, k) =>
                   hist[t].prices[k + 1][1] >= hist[t].prices[k][1]
          /\ \A k \in 1..Len(hist[t].prices) :
                hist[t].prices[k][1] * 10
                   <= args[t].max_gas_multiplier * hist[t].prices[k][2]

\* C9 witness: three attempts at one network gas price, the third at the
\* capped multiplier and so at the same gasPrice as the second.
C9_Witness ==
    \E t \in Threads :
       /\ Len(hist[t].prices) = 3
       /\ SameNetworkPrice(t, 1) /\ SameNetworkPrice(t, 2)
       /\ hist[t].prices[2][1] > hist[t].prices[1][1]
       /\ hist[t].prices[3][1] = hist[t].prices[2][1]

PastCheck(t) == pc[t] \notin {"idle", "check"}

\* C10 (as claimed): the sweep runs if and only if it is enabled and the gap
\* is strictly greater than the threshold max_pending_transactions, here 10.
C10_SweepAboveThreshold ==
    \A t \in Threads :
       PastCheck(t) =>
          (hist[t].sweeps > 0 <=>
              (args[t].clear_pending_transactions /\ hist[t].gap > 10))

\* C10 (amended): the sweep runs, once, if and only if the call was made with
\* clear_pending_transactions set and the congestion check read a gap
\* greater than 0; the code has no threshold.
C10_SweepOnAnyGap ==
    \A t \in Threads :
       /\ hist[t].sweeps <= 1
       /\ PastCheck(t) =>
             (hist[t].sweeps = 1 <=>
                 (args[t].clear_pending_transactions /\ hist[t].gap > 0))

\* C10 witness: a sweep was invoked for a gap of 1.
C10_Witness ==
    \E t \in Threads :
       /\ hist[t].sweeps = 1
       /\ hist[t].gap = 1
       /\ pc[t] = "sweep_wait"

\* C11 (as claimed): when both callers have read a gap greater than 0 in
\* their congestion check with clear_pending_transactions set, the sweep has
\* been invoked exactly once between them.
C11_SweepRunsOnceForTwoCallers ==
    (\A t \in Threads :
        /\ PastCheck(t)
        /\ args[t].clear_pending_transactions
        /\ hist[t].gap > 0)
    => Cardinality({t \in Threads : hist[t].sweeps > 0}) = 1

\* C12 (as claimed): a call made with clear_pending_transactions set and
\* max_retries >= 1 never ends without having started an attempt of the
\* primary send, whatever failed in the congestion check or in the sweep.
C12_CheckAndSweepFailuresDoNotMask ==
    \A t \in Threads :
       (/\ pc[t] = "done"
        /\ args[t].clear_pending_transactions
        /\ args[t].max_retries >= 1)
       => hist[t].attempts >= 1

SweepPcs == {"sweep", "sweep_replace", "sweep_wait"}

\* C13: no step of _clear_pending_transactions ends the call or sets its
\* result: from inside the sweep the caller either stays in the sweep or
\* goes on to the retry loop of send_transaction, whether the sweep timed
\* out, had a replacement rejected or met an RPC or signing error.
C13_SweepNeverRaises ==
    [][\A t \in Threads :
          pc[t] \in SweepPcs =>
             /\ pc'[t] \in SweepPcs \cup {"attempt"}
             /\ result'[t] = result[t]]_vars

\* C13 witness: a sweep whose replacement was rejected has timed out and the
\* call has gone on to its first attempt.
C13_Witness ==
    \E t \in Threads :
       /\ pc[t] = "attempt"
       /\ hist[t].attempts = 0
       /\ hist[t].rejected > 0
       /\ hist[t].sweep_out = "timeout"

\* the step in which a contract revert or custom error is raised by gas
\* estimation, build_transaction or send_raw_transaction in a call of t
RevertRaised(t) ==
    /\ hist'[t].raised # hist[t].raised
    /\ hist'[t].raised.kind \in RevertKinds
    /\ hist'[t].raised.at \in {"estimate", "build", "broadcast"}

\* C14: on any attempt, a contract logic revert or custom error raised by gas
\* estimation, transaction building or broadcast ends the call in that very
\* step with an Exception carrying the error: the retry counter keeps its
\* value, no time is slept and the call is over; when gas estimation raised
\* it, the attempt has taken no nonce from the cache and has sent nothing.
C14_RevertsAreFatalAtOnce ==
    [][\A t \in Threads :
          RevertRaised(t) =>
             /\ pc'[t] = "done"
             /\ result'[t].status = "raised"
             /\ result'[t].error.kind = "Exception"
             /\ result'[t].error.wraps = hist'[t].raised.kind
             /\ retry_count'[t] = retry_count[t]
             /\ hist'[t].sleeps = hist[t].sleeps
             /\ refresh_age' = refresh_age
             /\ hist'[t].attempts = hist[t].attempts + (IF pc[t] = "attempt" THEN 1 ELSE 0)
             /\ hist'[t].raised.at = "estimate" =>
                   /\ nonce_cache' = nonce_cache
                   /\ issued' = issued
                   /\ sent' = sent
                   /\ Len(hist'[t].nonces) < hist'[t].attempts
                   /\ hist'[t].bcasts < hist'[t].attempts]_vars

\* C14 witness: the second attempt of a call ended the call by a revert that
\* send_raw_transaction raised.
C14_Witness ==
    \E t \in Threads :
       /\ pc[t] = "done"
       /\ hist[t].attempts = 2
       /\ retry_count[t] = 1
       /\ hist[t].raised = [at |-> "broadcast", kind |-> "ContractLogicError"]
       /\ result[t].error.wraps = "ContractLogicError"

\* C15: when the first receipt lookup of the first attempt of a call answers
\* with a receipt of success status, the call has returned the hash of the
\* one transaction it broadcast, which the chain has included with success,
\* and it has slept neither in the receipt loop nor in backoff.
C15_ImmediateSuccessNoSleep ==
    \A t \in Threads :
       (/\ hist[t].attempts = 1
        /\ hist[t].lookups = 1
        /\ hist[t].receipt = "ok")
       => /\ pc[t] = "done"
          /\ result[t].status = "returned"
          /\ result[t].tx_hash \in DOMAIN sent
          /\ result[t].tx_hash = loc[t].tx_hash
          /\ sent[result[t].tx_hash].by = t
          /\ sent[result[t].tx_hash].call = callno[t]
          /\ sent[result[t].tx_hash].nonce = hist[t].nonces[1]
          /\ txstate[result[t].tx_hash] = "ok"
          /\ hist[t].bcasts = 1
          /\ Cardinality({h \in DOMAIN sent :
                            sent[h].by = t /\ sent[h].call = callno[t]}) = 1
          /\ hist[t].sleeps = <<>>

\* C15 witness: a call made with retries to spare has returned at its first
\* receipt lookup.
C15_Witness ==
    \E t \in Threads :
       /\ result[t].status = "returned"
       /\ args[t].max_retries = 2
       /\ hist[t].attempts = 1
       /\ hist[t].lookups = 1
       /\ hist[t].sleeps = <<>>

\* C16: a caller that polls for its receipt does not hold the nonce lock, and
\* no caller holds it during a sleep of the receipt loop or of backoff; so
\* whenever one caller polls and the other asks for the lock, the other can
\* take it at once.
C16_LockFreeWhileWaiting ==
    [][\A t \in Threads :
          /\ pc[t] = "poll" => nonce_lock # t
          /\ Len(hist'[t].sleeps) > Len(hist[t].sleeps) => nonce_lock' # t
          /\ \A u \in Threads \ {t} :
                (pc[t] = "poll" /\ pc[u] = "nonce") => ENABLED LockAcquire(u)]_vars

\* C16 witness: a caller that has slept in backoff and in the receipt loop is
\* still polling for a transaction in the pool, and the other caller has
\* since been handed a higher nonce and has broadcast with it.
C16_Witness ==
    \E t \in Threads, u \in Threads :
       /\ t # u
       /\ pc[t] = "poll"
       /\ txstate[loc[t].tx_hash] = "pool"
       /\ hist[t].attempts = 2
       /\ hist[t].lookups > hist[t].bcasts
       /\ \E h \in DOMAIN sent :
             /\ h > loc[t].tx_hash
             /\ sent[h].by = u
             /\ sent[h].nonce > loc[t].nonce
             /\ IssueIndex(h) > IssueIndex(loc[t].tx_hash)

\* C17: every call that has been entered ends, by a return or by a raise, and
\* on the way it starts at most max_retries attempts: the receipt loop ends
\* by a receipt or once more than timeout seconds have passed, the wait of
\* the sweep once max_wait_time has passed, and each failed attempt uses up
\* one of the max_retries.
C17_EveryCallTerminates ==
    /\ [](\A t \in Threads : hist[t].attempts <= Max(args[t].max_retries, 0))
    /\ \A t \in Threads : (pc[t] # "idle") ~> (pc[t] = "done")

\* C17 witness: a call that swept first and then ran out of its two attempts,
\* both by receipt timeouts, has ended with the TimeoutError.
C17_Witness ==
    \E t \in Threads :
       /\ pc[t] = "done"
       /\ hist[t].sweeps = 1
       /\ hist[t].attempts = 2
       /\ hist[t].bcasts = 2
       /\ args[t].timeout = 3
       /\ result[t].status = "raised"
       /\ result[t].error.kind = "TimeoutError"

\* C18: from a successful refresh on, at every state up to the next one, the
\* cached next-nonce is at least the confirmed count and at least the
\* pending count which that refresh read.
C18_CacheCoversRefreshedCounts ==
    last_refresh.made =>
       /\ nonce_cache # NoNonce
       /\ nonce_cache >= last_refresh.confirmed
       /\ nonce_cache >= last_refresh.pending

\* C18 witness: the first refresh read a pending count above the confirmed
\* count and handed it out as the nonce, and the next attempt took its nonce
\* from the cache without a refresh.
C18_Witness ==
    /\ last_refresh.made
    /\ last_refresh.pending > last_refresh.confirmed
    /\ Len(issued) = 2
    /\ issued[1].nonce = last_refresh.pending
    /\ ~last_issue.refreshed

\* C19: the cached next-nonce never decreases; a refresh that reads a chain
\* count below the cached value hands out the cached value; and whatever the
\* interleaving of the callers, every nonce _get_safe_nonce returns is
\* greater than all it returned before, so no nonce is returned twice.
C19_CacheAndNoncesOnlyGrow ==
    [][/\ nonce_cache' >= nonce_cache
       /\ \A i, j \in DOMAIN issued' :
             i < j => issued'[i].nonce < issued'[j].nonce
       /\ (/\ issued' # issued
           /\ last_issue'.refreshed
           /\ last_issue'.pending < last_issue'.cached)
          => issued'[Len(issued')].nonce = nonce_cache]_vars

\* C19 witness: both callers have been handed nonces, and the latest came
\* from a refresh that read a pending count below the cached value.
C19_Witness ==
    /\ Len(issued) >= 3
    /\ \E i, j \in DOMAIN issued : issued[i].by # issued[j].by
    /\ last_issue.refreshed
    /\ last_issue.pending < last_issue.cached
    /\ issued[Len(issued)].nonce = last_issue.cached

\* the step of an attempt in which the network gas price is read and the
\* gasPrice of the attempt is fixed
PriceRead(t) == Len(hist'[t].prices) = Len(hist[t].prices) + 1

\* floor(p * min(bgm * 1.2^(n-1), maxgm)) in exact arithmetic
ExactFloor(p, n, bgm, maxgm) ==
    IF bgm * Pow(12, n - 1) * 10 <= maxgm * Pow(10, n)
    THEN (p * bgm * Pow(12, n - 1)) \div Pow(10, n)
    ELSE (p * maxgm) \div 10

\* the multiplier of retry n is below the cap and its product with p is whole
WholeUncapped(p, n, bgm, maxgm) ==
    /\ bgm * Pow(12, n - 1) * 10 <= maxgm * Pow(10, n)
    /\ (p * bgm * Pow(12, n - 1)) % Pow(10, n) = 0

GenericHandled(t) == retry_count'[t] = retry_count[t] + 1

\* C21: when an attempt fails with a retryable error and attempts remain, the
\* call sleeps exactly 2^retry_count seconds, retry_count being the number of
\* attempts failed so far in the call, and loops; when the last allowed
\* attempt fails the call raises without sleeping.
C21_ExponentialBackoff ==
    [][\A t \in Threads :
          GenericHandled(t) =>
             LET rc == retry_count'[t] IN
             /\ rc = hist'[t].transient + hist'[t].sim_reverts + hist'[t].reverted
             /\ IF rc < args[t].max_retries
                THEN /\ hist'[t].sleeps = Append(hist[t].sleeps, Pow(2, rc))
                     /\ refresh_age' = Min(refresh_age + Pow(2, rc),
                                           nonce_refresh_interval + 1)
                     /\ pc'[t] = "attempt"
                ELSE /\ hist'[t].sleeps = hist[t].sleeps
                     /\ refresh_age' = refresh_age
                     /\ pc'[t] = "done"
                     /\ result'[t].status = "raised"]_vars

\* C21 witness: a call whose first two attempts failed at once slept 2 and
\* then 4 seconds and is about to make its third attempt.
C21_Witness ==
    \E t \in Threads :
       /\ pc[t] = "attempt"
       /\ retry_count[t] = 2
       /\ args[t].max_retries = 3
       /\ hist[t].sleeps = <<2, 4>>

\* the step of the sweep in which the node rejects a replacement
ReplacementRejected(t) == hist'[t].rejected = hist[t].rejected + 1

\* C22 (as claimed): when the node rejects the replacement for nonce n, the
\* sweep submits a replacement for the same nonce n again: after the first
\* rejection in a sweep it is still at nonce n and about to broadcast.
C22_RejectedNonceIsRetried ==
    [][\A t \in Threads :
          (ReplacementRejected(t) /\ hist[t].rejected = 0) =>
             /\ sweep'[t].next = sweep[t].next
             /\ pc'[t] = "sweep_replace"]_vars

\* the sweep of thread t has read a confirmed count C below the pending
\* count P; C is P less the gap it computed at line 84
SweepRange(t) == (sweep[t].last - sweep[t].initial_pending)..(sweep[t].last - 1)

\* C23 (as claimed): a sweep that has read C and P with P > C and has
\* returned handed a replacement to the node for every nonce in [C, P).
C23_EveryNonceReplaced ==
    \A t \in Threads :
       (hist[t].sweep_out # "none" /\ sweep[t].initial_pending > 0) =>
          Len(hist[t].replaced) = sweep[t].initial_pending

\* C23 (amended): the sweep goes through [C, P) in ascending order, one
\* replacement per nonce, going on after a rejected one; each replacement is
\* a zero-value transfer from the account to itself at 4 times the network
\* gas price read for that nonce.  A sweep that gets to its wait loop has
\* handed a replacement to the node for every nonce of [C, P); an exception
\* raised outside the broadcast ends the sweep with the remaining nonces left
\* alone.  When P <= C nothing is broadcast and the sweep returns without
\* waiting.
C23_ReplacesRangeInOrder ==
    [][\A t \in Threads :
          /\ (pc[t] = "sweep" /\ pc'[t] # "sweep") =>
                /\ PendingCount <= ConfirmedCount =>
                      /\ pc'[t] = "attempt"
                      /\ hist'[t].sweep_out \in {"no_gap", "error"}
                /\ pc'[t] = "sweep_replace" =>
                      /\ ConfirmedCount < PendingCount
                      /\ sweep'[t].next = ConfirmedCount
                      /\ sweep'[t].last = PendingCount
                      /\ sweep'[t].initial_pending = PendingCount - ConfirmedCount
                /\ hist'[t].replaced = <<>>
                /\ pc'[t] = "attempt" => (sent' = sent /\ timeVars' = timeVars)
          /\ (pc[t] = "sweep_replace" /\ pc'[t] # "sweep_replace"
                 /\ pc'[t] # "sweep_wait") =>
                /\ hist'[t].sweep_out = "error"
                /\ hist'[t].replaced = hist[t].replaced
                /\ sent' = sent
          /\ (pc[t] = "sweep_replace" /\ pc'[t] \in {"sweep_replace", "sweep_wait"}
                 /\ hist'[t] # hist[t]) =>
                LET r == hist'[t].replaced[Len(hist'[t].replaced)] IN
                /\ Len(hist'[t].replaced) = Len(hist[t].replaced) + 1
                /\ r.nonce = sweep[t].next
                /\ r.nonce = (sweep[t].last - sweep[t].initial_pending)
                                + Len(hist[t].replaced)
                /\ r.gasPrice = 4 * eth_gas_price
                /\ r.value = 0 /\ r.to = r.from
                /\ sweep'[t].next = r.nonce + 1
                /\ (pc'[t] = "sweep_wait") = (r.nonce = sweep[t].last - 1)
                /\ sent' # sent =>
                      /\ sent'[Len(sent')].nonce = r.nonce
                      /\ sent'[Len(sent')].price = r.gasPrice
          /\ pc'[t] = "sweep_wait" =>
                /\ Len(hist'[t].replaced) = sweep'[t].initial_pending
                /\ {hist'[t].replaced[i].nonce : i \in DOMAIN hist'[t].replaced}
                      = SweepRange(t)']_vars

\* C23 witness: a sweep over the nonces 0 and 1 had its replacement for nonce
\* 0 rejected and went on to nonce 1, for which it read another gas price.
C23_Witness ==
    \E t \in Threads :
       /\ pc[t] = "sweep_wait"
       /\ hist[t].rejected = 1
       /\ Len(sent) = 3
       /\ sent[3].nonce = 1 /\ sent[3].by = "sweep" /\ sent[3].price = 400
       /\ hist[t].replaced = <<Replacement(0, 10), Replacement(1, 100)>>

\* a round of the wait loop of thread t's sweep: the thread is at the loop
\* head and either leaves the sweep or sleeps
WaitRound(t) ==
    /\ pc[t] = "sweep_wait"
    /\ pc'[t] # pc[t] \/ elapsed'[t] # elapsed[t]

\* C24: each round of the wait loop that does not end the sweep sleeps 5
\* seconds; a round returns at once when it reads a confirmed count above
\* P - 1 or a gap of zero; once max_wait_time seconds have elapsed the sweep
\* returns; nothing is broadcast while waiting; and a sweep that is waiting
\* always comes to its end.
C24_SweepWaitReturns ==
    /\ [][\A t \in Threads :
             WaitRound(t) =>
                LET processed == ConfirmedCount > sweep[t].last - 1
                    empty == PendingCount - ConfirmedCount = 0
                    out == hist'[t].sweep_out
                IN  /\ sent' = sent
                    /\ elapsed[t] >= max_wait_time =>
                          (pc'[t] = "attempt" /\ out = "timeout")
                    /\ (elapsed[t] < max_wait_time /\ (processed \/ empty)) =>
                          /\ pc'[t] = "attempt"
                          /\ out \in {"processed", "no_pending", "error"}
                          /\ out = "processed" => processed
                          /\ out = "no_pending" => (empty /\ ~processed)
                          /\ elapsed'[t] = 0 /\ refresh_age' = refresh_age
                    /\ (elapsed[t] < max_wait_time /\ ~processed /\ ~empty) =>
                          \/ pc'[t] = "attempt" /\ out = "error"
                          \/ /\ pc'[t] = "sweep_wait"
                             /\ elapsed'[t] = elapsed[t] + 5]_vars
    /\ \A t \in Threads : (pc[t] = "sweep_wait") ~> (pc[t] # "sweep_wait")

\* C24 witness: a sweep that replaced two nonces waited out max_wait_time and
\* returned with the gap still open.
C24_Witness ==
    \E t \in Threads :
       /\ pc[t] = "attempt"
       /\ hist[t].sweep_out = "timeout"
       /\ Len(hist[t].replaced) = 2
       /\ PendingCount - ConfirmedCount = 2

\* the transactions broadcast by call c of thread t that were mined with
\* success status
MinedOfCall(t, c) ==
    {h \in DOMAIN sent : sent[h].by = t /\ sent[h].call = c /\ txstate[h] = "ok"}

\* C25 (as claimed): of the transactions one call of send_transaction
\* broadcast, at most one is ever mined, so the contract call takes effect on
\* chain at most once per call.
C25_AtMostOneMinedPerCall ==
    \A t \in Threads : \A c \in 1..callno[t] :
       Cardinality(MinedOfCall(t, c)) <= 1

\* nonce n has been broadcast: some transaction the node accepted carries it
WasBroadcast(n) == \E h \in DOMAIN sent : sent[h].nonce = n

\* C26 (as claimed): every nonce the manager handed out that lies below the
\* nonce of a transaction it broadcast has itself been broadcast, so a failed
\* attempt leaves no gap below a later broadcast.
C26_NoNonceGap ==
    \A i \in DOMAIN issued : \A h \in ManagerTx :
       issued[i].nonce < sent[h].nonce => WasBroadcast(issued[i].nonce)

\* the step in which the sweep of thread t hands a replacement to the node
ReplacementIssued(t) == Len(hist'[t].replaced) = Len(hist[t].replaced) + 1

\* thread u is waiting for the receipt of a transaction with nonce n
InFlight(u, n) == pc[u] = "poll" /\ sent[loc[u].tx_hash].nonce = n

\* C27 (as claimed): the sweep issues no replacement for the nonce of a
\* transaction that a call of the same manager broadcast and is still
\* waiting on.
C27_SweepSparesInFlight ==
    [][\A t \in Threads :
          ReplacementIssued(t) =>
             LET r == hist'[t].replaced[Len(hist'[t].replaced)]
             IN  \A u \in Threads : ~InFlight(u, r.nonce)]_vars

\* C28 (as claimed): every transaction the manager broadcasts is from the
\* account from whose nonce sequence its nonce was allocated, also when the
\* account argument is not the account the manager was constructed with.
C28_NonceFromSendersSequence ==
    \A h \in ManagerTx : sent[h].from = cache_key

\* thread t leaves _get_safe_nonce
LeavesGetSafeNonce(t) == pc[t] = "locked" /\ pc'[t] # "locked"

\* C29: when the refresh is due and reading the counts fails, a manager with a
\* cached nonce returns it, increments the cache and keeps the last-refresh
\* time, so that the refresh is still due at the next call; a manager without
\* one lets the error out, keeps the cache empty and releases the lock.
C29_FailedRefresh ==
    [][\A t \in Threads :
          LeavesGetSafeNonce(t) =>
             /\ nonce_lock' = NoThread
             /\ (ShouldRefresh /\ Len(issued') = Len(issued) + 1
                    /\ ~last_issue'.refreshed) =>
                   /\ nonce_cache # NoNonce
                   /\ loc'[t].nonce = nonce_cache
                   /\ issued'[Len(issued')].nonce = nonce_cache
                   /\ nonce_cache' = nonce_cache + 1
                   /\ refresh_age' = refresh_age
                   /\ refresh_age' > nonce_refresh_interval
                   /\ last_refresh' = last_refresh
                   /\ pc'[t] = "simulate"
             /\ issued' = issued =>
                   /\ ShouldRefresh
                   /\ nonce_cache = NoNonce /\ nonce_cache' = NoNonce
                   /\ refresh_age' >= refresh_age
                   /\ hist'[t].raised = [at |-> "nonce", kind |-> "RPCError"]
                   /\ retry_count'[t] = retry_count[t] + 1
                   /\ last_error'[t].kind = "RPCError"
             /\ nonce_cache = NoNonce =>
                   (issued' = issued \/ last_issue'.refreshed)]_vars

\* C29 witness: the second acquisition of a call found the cache more than 60
\* seconds old, could not read the counts, and handed out the cached nonce;
\* the refresh is still due.
C29_Witness ==
    /\ Len(issued) = 2
    /\ ~last_issue.refreshed
    /\ last_issue.age > nonce_refresh_interval
    /\ last_issue.cached = 1
    /\ issued[2].nonce = 1
    /\ nonce_cache = 2
    /\ refresh_age > nonce_refresh_interval
    /\ nonce_lock = NoThread

\* a round of the receipt loop of thread t: one more lookup is made
PollRound(t) == pc[t] = "poll" /\ hist'[t].lookups = hist[t].lookups + 1

\* C30: an exception of get_transaction_receipt is treated as no receipt yet:
\* the round goes on to the timeout check, and neither ends the attempt nor
\* counts as a failed attempt by itself.  An attempt that is polling ends only
\* by a receipt or by the timeout check, and every broadcast is followed by
\* at least one lookup, also with timeout 0.
C30_LookupErrorsSwallowed ==
    [][\A t \in Threads :
          /\ PollRound(t) =>
                /\ hist'[t].receipt = "error" =>
                      IF elapsed[t] > args[t].timeout
                      THEN /\ hist'[t].raised = [at |-> "timeout",
                                                 kind |-> "TimeoutError"]
                           /\ last_error'[t].kind = "TimeoutError"
                      ELSE /\ pc'[t] = "poll"
                           /\ retry_count'[t] = retry_count[t]
                           /\ last_error'[t] = last_error[t]
                           /\ result'[t] = result[t]
                           /\ hist'[t].sleeps = Append(hist[t].sleeps, 2)
                /\ pc'[t] # "poll" =>
                      \/ /\ result'[t].status = "returned"
                         /\ hist'[t].receipt = "ok"
                         /\ txstate[loc[t].tx_hash] = "ok"
                      \/ /\ hist'[t].raised.at = "receipt"
                         /\ hist'[t].receipt = "fail"
                         /\ txstate[loc[t].tx_hash] = "fail"
                      \/ /\ hist'[t].raised.at = "timeout"
                         /\ hist'[t].receipt \in {"none", "error"}
                         /\ elapsed[t] > args[t].timeout
                /\ retry_count'[t] # retry_count[t] =>
                      hist'[t].raised.at \in {"receipt", "timeout"}
          /\ (pc[t] = "poll" /\ pc'[t] # "poll") => PollRound(t)
          /\ (pc'[t] # "poll") => hist'[t].lookups >= hist'[t].bcasts]_vars

\* C30 witness: the first two lookups of an attempt with timeout 3 have
\* raised, and the attempt is still polling with no failure counted.
C30_Witness ==
    \E t \in Threads :
       /\ pc[t] = "poll"
       /\ args[t].timeout = 3
       /\ hist[t].bcasts = 1
       /\ hist[t].lookups = 2
       /\ hist[t].receipt = "error"
       /\ hist[t].sleeps = <<2, 2>>
       /\ retry_count[t] = 0
====
